---- MODULE Spec2Model ----
(***************************************************************************)
(* DenormalizedTracker (src/denormalized/tracker.py): the plan of          *)
(* incremental updates track_changes returns for one child lifecycle       *)
(* event, and the stored aggregate fields of the parents once the plan is  *)
(* applied as field = F(field) + delta.                                    *)
(***************************************************************************)
EXTENDS Integers, Sequences, FiniteSets

\* ------------------------------------------------------------------ bounds
NumParents == 2
NumChildren == 1
MaxOperand == 1
MaxEvents == 2

Parents == 1..NumParents
Children == 1..NumChildren
\* foreign_object = None (tracker.py:30), and a null foreign key
NoParent == 0
ParentRefs == Parents \cup {NoParent}
\* isinstance(self.aggregate, ...) in _get_delta
Kinds == {"Count", "Sum", "Min"}
\* the aggregates a tracker can be constructed with (tracker.py:15): the
\* three above and one that _get_delta has no branch for
Aggregates == Kinds \cup {"Max"}
\* the values of the Sum/Min operand; Count('*') reads no operand
Operands(k) == IF k = "Count" THEN {0} ELSE 0..MaxOperand

VARIABLES kind, children, field, cascading, ev, prev, nEvents

vars == <<kind, children, field, cascading, ev, prev, nEvents>>

\* ------------------------------------------------------------ data shapes
\* a child instance: its foreign key, what self.callback(instance) answers,
\* and the value of the aggregate's source field
Snapshot(p, s, o) == [parent |-> p, suitable |-> s, operand |-> o]
NoSnapshot == Snapshot(NoParent, FALSE, 0)
Snapshots(k) == [parent : ParentRefs, suitable : BOOLEAN, operand : Operands(k)]
Row(snap) == [exists |-> TRUE, parent |-> snap.parent, suitable |-> snap.suitable, operand |-> snap.operand]
NoRow == [exists |-> FALSE, parent |-> NoParent, suitable |-> FALSE, operand |-> 0]
SnapshotOf(row) == Snapshot(row.parent, row.suitable, row.operand)
\* the instance handed to track_changes: the saved snapshot, its operand
\* attribute possibly still the expression it was saved with (deferred)
Instance(snap, deferred) == [parent |-> snap.parent, suitable |-> snap.suitable, operand |-> snap.operand, deferred |-> deferred]
\* a CombinedExpression: a value that is no operand and is not equal to 0
CombinedExpression == MaxOperand + 1

\* the parent's stored field: a number, or NULL (Min over no children)
Value(v) == [null |-> FALSE, v |-> v]
Null == [null |-> TRUE, v |-> 0]

\* an element of the returned iterable: the pair (foreign_object, {field:
\* F(field) + delta * sign}), or the None that _update_value returns
Entry(p, d) == [none |-> FALSE, parent |-> p, delta |-> d]
NoneEntry == [none |-> TRUE, parent |-> NoParent, delta |-> 0]

\* how a call ends: a returned plan, or a raised exception
Returned(plan) == [status |-> "ok", error |-> "", plan |-> plan]
Raised(e) == [status |-> "error", error |-> e, plan |-> <<>>]

\* ------------------------------------------------------------- the tracker
Min2(a, b) == IF a <= b THEN a ELSE b

\* _get_full_aggregate: raise NotImplementedError()
get_full_aggregate == Raised("NotImplementedError:_get_full_aggregate")

\* value = getattr(instance, arg.name)
getattr_operand(instance) == IF instance.deferred THEN CombinedExpression ELSE instance.operand

\* instance.refresh_from_db(fields=(arg.name,)); getattr(instance, arg.name)
refresh_from_db(instance) == instance.operand

\* the Sum value taken as read, without the refresh
sum_value_unresolved(instance) == getattr_operand(instance)

\* the Sum branch of _get_delta
sum_value(instance) ==
  LET value == getattr_operand(instance) IN
  IF value = CombinedExpression THEN refresh_from_db(instance) ELSE value

\* a refresh under every aggregate
instance_after_refresh_always(k, instance) == FALSE

\* whether the instance's operand attribute is still deferred once
\* track_changes has run: only the Sum branch refreshes the instance
instance_after(k, instance) ==
  IF k = "Sum" /\ getattr_operand(instance) = CombinedExpression THEN FALSE
  ELSE instance.deferred

\* a zero delta in place of the error
unsupported_aggregate_returns == Returned(<<0>>)

\* raise NotImplementedError() at the end of _get_delta
unsupported_aggregate == Raised("NotImplementedError")

\* _get_delta(instance, deleted): deleted is "True", "False" or "None";
\* dne: getattr(instance, self.foreign_key) raises ObjectDoesNotExist.
\* The result is Returned(<<value>>) or Raised(exception).
get_delta(k, instance, deleted, dne, fld) ==
  IF k = "Count" THEN Returned(<<1>>)
  ELSE IF k = "Sum" THEN Returned(<<sum_value(instance)>>)
  ELSE IF k = "Min" THEN
    LET value == getattr_operand(instance) IN
    IF dne THEN Raised("ObjectDoesNotExist")
    ELSE IF instance.parent = NoParent THEN Raised("AttributeError")
    ELSE
      LET min_value == fld[instance.parent] IN
      IF deleted = "True" THEN
        IF min_value.null \/ value = CombinedExpression THEN Raised("TypeError")
        ELSE IF min_value.v < value THEN Returned(<<0>>)
        ELSE get_full_aggregate
      ELSE IF deleted = "False" THEN
        IF min_value.null THEN Returned(<<value>>)
        ELSE IF value = CombinedExpression THEN Raised("TypeError")
        ELSE Returned(<<Min2(min_value.v, value) - min_value.v>>)
      ELSE Returned(<<0>>)
  ELSE unsupported_aggregate

_update_value_no_sign(foreign_object, delta, sign) ==
  IF delta = 0 \/ foreign_object = NoParent THEN NoneEntry
  ELSE Entry(foreign_object, delta)

\* _update_value(foreign_object, delta, sign)
_update_value(foreign_object, delta, sign) ==
  IF delta = 0 \/ foreign_object = NoParent THEN NoneEntry
  ELSE Entry(foreign_object, delta * sign)

\* filter(None, changed)
filter_none(changed) == SelectSeq(changed, LAMBDA e : ~e.none)

Int01(b) == IF b THEN 1 ELSE 0

membership_sign_swapped(is_suitable, old_suitable) == Int01(old_suitable) - Int01(is_suitable)

\* sign = is_suitable - old_suitable
membership_sign(is_suitable, old_suitable) == Int01(is_suitable) - Int01(old_suitable)

\* a reparenting that returns the new parent's entry alone
track_update_partial(instance, old_instance, delta) ==
  LET foreign_object == instance.parent
      is_suitable == instance.suitable
      old_suitable == old_instance.suitable
      old_foreign_object == old_instance.parent
      sign == membership_sign(is_suitable, old_suitable)
  IN
  IF foreign_object = old_foreign_object /\ sign # 0 THEN
    Returned(filter_none(<<_update_value(foreign_object, delta, sign)>>))
  ELSE IF foreign_object # old_foreign_object THEN
    IF is_suitable THEN
      Returned(filter_none(<<_update_value(foreign_object, delta, 1)>>))
    ELSE Returned(filter_none(<<>>))
  ELSE Raised("NameError:old_delta")

\* a membership flip that returns its entry twice
track_update_twice(instance, old_instance, delta) ==
  LET foreign_object == instance.parent
      is_suitable == instance.suitable
      old_suitable == old_instance.suitable
      old_foreign_object == old_instance.parent
      sign == membership_sign(is_suitable, old_suitable)
  IN
  IF foreign_object = old_foreign_object /\ sign # 0 THEN
    Returned(filter_none(<<_update_value(foreign_object, delta, sign), _update_value(foreign_object, delta, sign)>>))
  ELSE IF foreign_object # old_foreign_object THEN
    IF old_suitable THEN Raised("NameError:old_delta")
    ELSE IF is_suitable THEN
      Returned(filter_none(<<_update_value(foreign_object, delta, 1)>>))
    ELSE Returned(filter_none(<<>>))
  ELSE Raised("NameError:old_delta")

\* the update branch of track_changes (neither created nor deleted); the
\* name old_delta is bound nowhere, so reading it raises NameError
track_update(instance, old_instance, delta) ==
  LET foreign_object == instance.parent
      is_suitable == instance.suitable
      old_suitable == old_instance.suitable
      old_foreign_object == old_instance.parent
      sign == membership_sign(is_suitable, old_suitable)
  IN
  IF foreign_object = old_foreign_object /\ sign # 0 THEN
    Returned(filter_none(<<_update_value(foreign_object, delta, sign)>>))
  ELSE IF foreign_object # old_foreign_object THEN
    IF old_suitable THEN Raised("NameError:old_delta")
    ELSE IF is_suitable THEN
      Returned(filter_none(<<_update_value(foreign_object, delta, 1)>>))
    ELSE Returned(filter_none(<<>>))
  ELSE Raised("NameError:old_delta")

\* track_changes(instance, created, deleted); old_instance is
\* instance._denormalized_previous_version, fld the parents' stored fields
track_changes(k, instance, old_instance, created, deleted, dne, fld) ==
  LET foreign_object == IF dne THEN NoParent ELSE instance.parent
      is_suitable == instance.suitable
      d == get_delta(k, instance, "False", dne, fld)
  IN
  IF d.status = "error" THEN d
  ELSE
    LET delta == d.plan[1] IN
    IF created THEN
      IF is_suitable THEN Returned(<<_update_value(foreign_object, delta, 1)>>)
      ELSE Returned(<<>>)
    ELSE IF deleted THEN
      IF is_suitable THEN Returned(<<_update_value(foreign_object, delta, -1)>>)
      ELSE Returned(<<>>)
    ELSE track_update(instance, old_instance, delta)

\* ------------------------------------------------- applying a plan, truth
\* {field: F(field) + delta * sign}: an addition to NULL is NULL
ApplyEntry(fld, e) ==
  IF e.none THEN fld
  ELSE [fld EXCEPT ![e.parent] = IF @.null THEN @ ELSE Value(@.v + e.delta)]

RECURSIVE ApplyPlan(_, _)
ApplyPlan(fld, plan) ==
  IF plan = <<>> THEN fld
  ELSE ApplyPlan(ApplyEntry(fld, Head(plan)), Tail(plan))

\* the children the aggregate of parent p ranges over
Qualifying(ch, p) == {c \in Children : ch[c].exists /\ ch[c].suitable /\ ch[c].parent = p}

RECURSIVE SumOperands(_, _)
SumOperands(ch, S) ==
  IF S = {} THEN 0
  ELSE LET c == CHOOSE x \in S : TRUE IN ch[c].operand + SumOperands(ch, S \ {c})

\* the aggregate recomputed over the children of p
TrueAggregate(k, ch, p) ==
  LET Q == Qualifying(ch, p) IN
  IF k = "Count" THEN Value(Cardinality(Q))
  ELSE IF k = "Sum" THEN IF Q = {} THEN Value(0) ELSE Value(SumOperands(ch, Q))
  ELSE IF Q = {} THEN Null
  ELSE IF k = "Max" THEN Value(CHOOSE m \in {ch[c].operand : c \in Q} : \A c \in Q : m >= ch[c].operand)
  ELSE Value(CHOOSE m \in {ch[c].operand : c \in Q} : \A c \in Q : m <= ch[c].operand)

\* ----------------------------------------------------------------- events
\* the last event: the instance track_changes was given, its previous
\* version (updates), whether the parent lookup raised, how the call ended,
\* the stored fields before it (pre), whether its plan was applied, and
\* whether the instance's operand was deferred before and after the call
NoEvent == [kind |-> "none", child |-> 0, old_instance |-> NoSnapshot, instance |-> NoSnapshot, dne |-> FALSE, out |-> Returned(<<>>), pre |-> [p \in Parents |-> Null], applied |-> FALSE, deferred |-> FALSE, deferred_after |-> FALSE]
Event(k, c, old, inst, dne, out, pre, applied, deferred, deferred_after) == [kind |-> k, child |-> c, old_instance |-> old, instance |-> inst, dne |-> dne, out |-> out, pre |-> pre, applied |-> applied, deferred |-> deferred, deferred_after |-> deferred_after]

\* what is remembered of the event before the last one: a create whose
\* plan was applied, with the child it created and the fields before it
NoLast == [kind |-> "none", child |-> 0, suitable |-> FALSE, pre |-> [p \in Parents |-> Null], applied |-> FALSE]
Last(e) ==
  IF e.kind = "create" /\ e.applied
  THEN [kind |-> e.kind, child |-> e.child, suitable |-> e.instance.suitable, pre |-> e.pre, applied |-> e.applied]
  ELSE NoLast

\* what the caller of a raising track_changes does with the mutation that
\* triggered it: abort it, or let it stand with a stale field
CallerChoices(out) == IF out.status = "error" THEN {"abort", "proceed"} ELSE {"proceed"}

\* the event is recorded, the plan (if one was returned) applied
Deliver(k, c, old, inst, deferred, dne, out, newRow, choice) ==
  /\ nEvents' = nEvents + 1
  /\ prev' = Last(ev)
  /\ ev' = Event(k, c, old, inst, dne, out, field, out.status = "ok", deferred, instance_after(kind, Instance(inst, deferred)))
  /\ children' = IF choice = "proceed" THEN [children EXCEPT ![c] = newRow] ELSE children
  /\ field' = IF out.status = "ok" THEN ApplyPlan(field, out.plan) ELSE field
  /\ UNCHANGED <<kind, cascading>>

\* post-save of a new child
Create(c, snap, deferred) ==
  /\ nEvents < MaxEvents
  /\ ~children[c].exists
  /\ snap.parent \notin cascading
  /\ LET out == track_changes(kind, Instance(snap, deferred), NoSnapshot, TRUE, FALSE, FALSE, field) IN
     \E choice \in CallerChoices(out) :
       Deliver("create", c, NoSnapshot, snap, deferred, FALSE, out, Row(snap), choice)

\* post-save of an existing child
Update(c, snap, deferred) ==
  /\ nEvents < MaxEvents
  /\ children[c].exists
  /\ children[c].parent \notin cascading
  /\ snap.parent \notin cascading
  /\ LET old == SnapshotOf(children[c])
         out == track_changes(kind, Instance(snap, deferred), old, FALSE, FALSE, FALSE, field) IN
     \E choice \in CallerChoices(out) :
       Deliver("update", c, old, snap, deferred, FALSE, out, Row(snap), choice)

\* post-delete of a child; while its parent is being deleted by a cascade
\* the parent lookup may raise ObjectDoesNotExist
Delete(c, dne) ==
  /\ nEvents < MaxEvents
  /\ children[c].exists
  /\ dne => children[c].parent \in cascading
  /\ LET snap == SnapshotOf(children[c])
         out == track_changes(kind, Instance(snap, FALSE), NoSnapshot, FALSE, TRUE, dne, field) IN
     \E choice \in CallerChoices(out) :
       Deliver("delete", c, NoSnapshot, snap, FALSE, dne, out, NoRow, choice)


\* the aggregates the sequences of events below are run for
AdditiveKinds == {"Count", "Sum"}

\* no children yet, every stored field the aggregate over nothing
Init ==
  /\ kind \in AdditiveKinds
  /\ children = [c \in Children |-> NoRow]
  /\ field = [p \in Parents |-> Value(0)]
  /\ cascading = {}
  /\ ev = NoEvent
  /\ prev = Last(NoEvent)
  /\ nEvents = 0

Next ==
  \/ \E c \in Children, snap \in Snapshots(kind), deferred \in BOOLEAN : Create(c, snap, deferred)
  \/ \E c \in Children, snap \in Snapshots(kind), deferred \in BOOLEAN : Update(c, snap, deferred)
  \/ \E c \in Children, dne \in BOOLEAN : Delete(c, dne)

Spec == Init /\ [][Next]_vars

\* the stored minimum agrees with the children: no modelled child that
\* qualifies under p is below it. The other children of p, which
\* track_changes never reads, show only in the stored minimum.
MinAgrees(ch, fld) ==
  \A p \in Parents :
    LET Q == Qualifying(ch, p) IN
    Q # {} => ~fld[p].null /\ \A c \in Q : fld[p].v <= ch[c].operand

StoredFields(k, ch) ==
  IF k = "Min"
  THEN {fld \in [Parents -> {Null} \cup {Value(v) : v \in 0..MaxOperand}] : MinAgrees(ch, fld)}
  ELSE {[p \in Parents |-> TrueAggregate(k, ch, p)]}

Rows(k) == {NoRow} \cup {Row(s) : s \in Snapshots(k)}

\* the parents a cascade (Collector) may be deleting together with their
\* children: none, or the parent of a modelled child
Cascades(ch) == {{}} \cup {{ch[c].parent} : c \in {x \in Children : ch[x].exists /\ ch[x].parent # NoParent}}

\* one event against a database that holds at most one modelled child, with
\* stored fields that agree with it
InitEvent ==
  /\ kind \in Aggregates
  /\ children \in {ch \in [Children -> Rows(kind)] : Cardinality({c \in Children : ch[c].exists}) <= 1}
  /\ field \in StoredFields(kind, children)
  /\ cascading \in Cascades(children)
  /\ ev = NoEvent
  /\ prev = Last(NoEvent)
  /\ nEvents = 0

NextEvent ==
  /\ nEvents = 0
  /\ \/ \E c \in Children, snap \in Snapshots(kind), deferred \in BOOLEAN : Create(c, snap, deferred)
     \/ \E c \in Children, snap \in Snapshots(kind), deferred \in BOOLEAN : Update(c, snap, deferred)
     \/ \E c \in Children, dne \in BOOLEAN : Delete(c, dne)

SpecEvent == InitEvent /\ [][NextEvent]_vars

TypeOK ==
  /\ kind \in Aggregates
  /\ nEvents \in 0..MaxEvents
  /\ cascading \subseteq Parents
  /\ \A c \in Children : children[c] \in Rows(kind)
  /\ \A p \in Parents : field[p].null \in BOOLEAN /\ field[p].v \in Int

\* ------------------------------------------------------------- properties
\* the parents whose rows are not being deleted
Live == Parents \ cascading

\* the magnitude the specification computes from one snapshot: 1 for Count,
\* the operand for Sum
Magnitude(k, snap) == IF k = "Count" THEN 1 ELSE snap.operand

\* the elements of a plan that carry an update
Updates(plan) == SelectSeq(plan, LAMBDA e : ~e.none)

IsUpdate == ev.kind = "update"
SameParent == ev.instance.parent = ev.old_instance.parent
ParentsPresent == ev.instance.parent # NoParent /\ ev.old_instance.parent # NoParent

\* C1: for Count, after every sequence of create, update and delete events
\* whose plans are applied, each parent's stored field is the number of
\* existing children that satisfy membership and reference it.
C1_CountFieldIsTrueCount ==
  kind = "Count" => \A p \in Live : field[p] = TrueAggregate("Count", children, p)

\* C2: for Sum, after every sequence of create, update and delete events
\* whose plans are applied, each parent's stored field is the sum of the
\* current operands of its qualifying children.
C2_SumFieldIsTrueSum ==
  kind = "Sum" => \A p \in Live : field[p] = TrueAggregate("Sum", children, p)

\* C3: an update that moves a child, qualifying before and after, from
\* parent A to another parent B returns exactly <<(A, -d_before),
\* (B, +d_after)>>, d being 1 for Count and the snapshot's operand for Sum.
C3_ReparentingTwoEntries ==
  ( /\ IsUpdate /\ kind \in {"Count", "Sum"}
    /\ ParentsPresent /\ ~SameParent
    /\ ev.old_instance.suitable /\ ev.instance.suitable
    /\ Magnitude(kind, ev.old_instance) # 0 /\ Magnitude(kind, ev.instance) # 0 )
  => ev.out = Returned(<<Entry(ev.old_instance.parent, -Magnitude(kind, ev.old_instance)),
                         Entry(ev.instance.parent, Magnitude(kind, ev.instance))>>)

\* C4: for Min with stored minimum M, deleting a qualifying child with
\* operand v <= M ends in the full recomputation (_get_full_aggregate), and
\* deleting one with v > M returns a plan that carries no update.
C4_MinDeleteRecomputes ==
  ( /\ kind = "Min" /\ ev.kind = "delete" /\ ~ev.dne
    /\ ev.instance.suitable /\ ev.instance.parent \in Live
    /\ ~ev.pre[ev.instance.parent].null )
  => LET M == ev.pre[ev.instance.parent].v
         v == ev.instance.operand
     IN /\ v <= M => ev.out = get_full_aggregate
        /\ v > M => ev.out.status = "ok" /\ Updates(ev.out.plan) = <<>>

\* C5: an update whose previous version equals the instance (same parent,
\* membership and operand) returns an empty plan without raising.
C5_UnchangedUpdateEmptyPlan ==
  (IsUpdate /\ kind \in Kinds /\ ev.old_instance = ev.instance) => ev.out = Returned(<<>>)

\* C6: for Count, a create of a qualifying child immediately followed by
\* the delete of that child, both plans applied, leaves every parent's
\* stored field at its value before the create.
C6_CreateThenDeleteRestores ==
  ( /\ kind = "Count"
    /\ prev.kind = "create" /\ prev.suitable /\ prev.applied
    /\ ev.kind = "delete" /\ ev.child = prev.child /\ ev.applied )
  => field = prev.pre

\* C6 witness: a qualifying child of a present parent was created and then
\* deleted, the delete taking back the parent's +1
C6_Witness ==
  /\ kind = "Count"
  /\ prev.kind = "create" /\ prev.suitable /\ prev.applied
  /\ ev.kind = "delete" /\ ev.child = prev.child /\ ev.applied
  /\ ev.instance.parent # NoParent
  /\ ev.out.plan = <<Entry(ev.instance.parent, -1)>>
  /\ ev.pre[ev.instance.parent] = Value(prev.pre[ev.instance.parent].v + 1)

\* C7: an update with unchanged parent of a child qualifying before and
\* after returns the single entry (parent, computed(after) -
\* computed(before)) when that difference is not zero, and no entry when it
\* is zero.
C7_OperandChangeNetDelta ==
  ( /\ IsUpdate /\ kind \in {"Count", "Sum"}
    /\ ParentsPresent /\ SameParent
    /\ ev.old_instance.suitable /\ ev.instance.suitable )
  => LET diff == Magnitude(kind, ev.instance) - Magnitude(kind, ev.old_instance) IN
     ev.out = Returned(IF diff # 0 THEN <<Entry(ev.instance.parent, diff)>> ELSE <<>>)

\* the value line 32 computes from the instance: 1 for Count, the operand
\* for Sum, and for Min the operand if the stored minimum M is unset, else
\* min(M, operand) - M
ComputedAfter ==
  LET v == ev.instance.operand
      M == ev.pre[ev.instance.parent]
  IN IF kind = "Count" THEN 1
     ELSE IF kind = "Sum" THEN v
     ELSE IF M.null THEN v
     ELSE IF v < M.v THEN v - M.v ELSE 0

MembershipFlips ==
  /\ IsUpdate /\ ParentsPresent /\ SameParent
  /\ ev.old_instance.suitable # ev.instance.suitable
  /\ kind \in Kinds
  /\ kind = "Min" => ~ev.deferred

FlipSign == IF ev.instance.suitable THEN 1 ELSE -1

C9_UnresolvedParentSuppressed ==
  (ev.kind = "delete" /\ ev.dne /\ kind \in Kinds) => ev.out.status = "ok" /\ Updates(ev.out.plan) = <<>>

\* C10: every element of a returned plan is a (parent, delta) pair with a
\* present parent and a non-zero delta; a suppressed update leaves no
\* element, not a None, in the plan.
C10_PlanHoldsOnlyUpdates ==
  (ev.kind \in {"create", "delete", "update"} /\ ev.out.status = "ok")
  => \A i \in 1..Len(ev.out.plan) :
       /\ ~ev.out.plan[i].none
       /\ ev.out.plan[i].parent # NoParent
       /\ ev.out.plan[i].delta # 0

\* C11: a create or a delete of a child that does not satisfy membership
\* returns an empty plan without raising, for every aggregate and with the
\* child's parent present or absent.
C11_NonMemberEmptyPlan ==
  ( /\ ev.kind \in {"create", "delete"} /\ kind \in Kinds
    /\ ~ev.instance.suitable /\ ~ev.dne /\ ~ev.deferred )
  => ev.out = Returned(<<>>)

\* C12: for Min, once the plan of a create of a qualifying child with
\* operand v under a parent with stored minimum M is applied, the stored
\* minimum is v if M was unset and min(M, v) otherwise; the plan is empty
\* when v >= M.
C12_MinCreateLowersMinimum ==
  ( /\ kind = "Min" /\ ev.kind = "create" /\ ~ev.deferred
    /\ ev.instance.suitable /\ ev.instance.parent \in Live )
  => LET M == ev.pre[ev.instance.parent]
         v == ev.instance.operand
     IN /\ ev.out.status = "ok"
        /\ field[ev.instance.parent] = IF M.null THEN Value(v) ELSE Value(Min2(M.v, v))
        /\ (~M.null /\ v >= M.v) => Updates(ev.out.plan) = <<>>

\* whether a plan carries an update for parent p
PlanCovers(plan, p) == \E i \in 1..Len(plan) : ~plan[i].none /\ plan[i].parent = p

\* C13: for Sum, every update a returned plan carries has as delta the
\* concrete operand of the instance, added or taken away, also when the
\* instance's operand attribute was a deferred expression; no delta is the
\* expression itself.
C13_SumDeltasConcrete ==
  (kind = "Sum" /\ ev.kind # "none" /\ ev.out.status = "ok")
  => \A i \in 1..Len(ev.out.plan) :
       ~ev.out.plan[i].none
       => /\ ev.out.plan[i].delta \in {ev.instance.operand, -ev.instance.operand}
          /\ ev.out.plan[i].delta \notin {CombinedExpression, -CombinedExpression}

\* C13 witness: the create of a qualifying Sum child whose operand attribute
\* was deferred returned the entry (parent, operand)
C13_Witness ==
  /\ kind = "Sum" /\ ev.kind = "create" /\ ev.deferred
  /\ ev.instance.suitable /\ ev.instance.parent # NoParent
  /\ ev.instance.operand # 0
  /\ ev.out = Returned(<<Entry(ev.instance.parent, ev.instance.operand)>>)

\* C14: with an aggregate that is none of Count, Sum and Min, every create,
\* update and delete ends in NotImplementedError; no plan is returned and
\* nothing is applied.
C14_UnsupportedAggregateRaises ==
  (kind \notin Kinds /\ ev.kind # "none")
  => /\ ev.out = Raised("NotImplementedError")
     /\ ~ev.applied
     /\ field = ev.pre

\* C14 witness: a create under an unsupported aggregate ended in the error
C14_Witness ==
  /\ kind = "Max" /\ ev.kind = "create"
  /\ ev.instance.suitable /\ ev.instance.parent # NoParent
  /\ ev.out.status = "error" /\ ev.out.error = "NotImplementedError"

\* C15: every call ends either in a returned plan, which is applied and
\* which on a reparenting carries the update of each parent whose aggregate
\* the move changes, or in an error with no plan entry: nothing is applied
\* and every stored field keeps its value.
C15_PlanWholeOrError ==
  ev.kind # "none"
  => \/ /\ ev.out.status = "ok" /\ ev.applied
        /\ ( /\ IsUpdate /\ ~SameParent /\ kind \in AdditiveKinds
             /\ ev.old_instance.suitable /\ ev.old_instance.parent # NoParent
             /\ Magnitude(kind, ev.old_instance) # 0 )
           => PlanCovers(ev.out.plan, ev.old_instance.parent)
        /\ ( /\ IsUpdate /\ ~SameParent /\ kind \in AdditiveKinds
             /\ ev.instance.suitable /\ ev.instance.parent # NoParent
             /\ Magnitude(kind, ev.instance) # 0 )
           => PlanCovers(ev.out.plan, ev.instance.parent)
     \/ /\ ev.out.status = "error" /\ ev.out.plan = <<>>
        /\ ~ev.applied /\ field = ev.pre

\* C15 witness: the reparenting of a qualifying Count child, whose plan
\* would have two entries, ended in an error and changed no stored field
C15_Witness ==
  /\ kind = "Count" /\ IsUpdate /\ ParentsPresent /\ ~SameParent
  /\ ev.old_instance.suitable /\ ev.instance.suitable
  /\ ev.out.status = "error" /\ ev.out.plan = <<>>
  /\ ~ev.applied /\ field = ev.pre

\* C16: for Min, an update that changes only the operand of a qualifying
\* child of a present parent with stored minimum M, the old operand being
\* <= M, ends in the full recomputation (_get_full_aggregate).
C16_MinOperandUpdateRecomputes ==
  ( /\ kind = "Min" /\ IsUpdate /\ ~ev.deferred
    /\ SameParent /\ ev.instance.parent \in Live
    /\ ev.old_instance.suitable /\ ev.instance.suitable
    /\ ev.old_instance.operand # ev.instance.operand
    /\ ~ev.pre[ev.instance.parent].null
    /\ ev.old_instance.operand <= ev.pre[ev.instance.parent].v )
  => ev.out = get_full_aggregate

\* C17: an update with unchanged, present parent of a child that satisfies
\* membership neither before nor after returns a plan that carries no
\* update, also when the operand changed.
C17_NonMemberUpdateNoEntry ==
  ( /\ IsUpdate /\ kind \in Kinds /\ ~ev.deferred
    /\ ParentsPresent /\ SameParent
    /\ ~ev.old_instance.suitable /\ ~ev.instance.suitable )
  => ev.out.status = "ok" /\ Updates(ev.out.plan) = <<>>

\* C18: a returned plan has at most two elements and that of a create or a
\* delete at most one; no two of its updates are for the same parent, and
\* two updates are returned only by an update whose previous parent differs
\* from its parent.
C18_PlanAtMostTwoEntries ==
  (ev.kind # "none" /\ ev.out.status = "ok")
  => LET plan == ev.out.plan IN
     /\ Len(plan) <= 2
     /\ ev.kind \in {"create", "delete"} => Len(plan) <= 1
     /\ \A i, j \in 1..Len(plan) :
          (i # j /\ ~plan[i].none /\ ~plan[j].none) => plan[i].parent # plan[j].parent
     /\ Len(Updates(plan)) = 2 => IsUpdate /\ ~SameParent

\* C18 witness: an update that moved a child into membership under another
\* parent returned the one entry of the new parent
C18_Witness ==
  /\ kind = "Count" /\ IsUpdate /\ ParentsPresent /\ ~SameParent
  /\ ~ev.old_instance.suitable /\ ev.instance.suitable
  /\ ev.out = Returned(<<Entry(ev.instance.parent, 1)>>)

\* C19 as stated: no call changes the instance it is given, so an operand
\* attribute that was deferred before the call is deferred after it.
C19_InstanceNeverChanged ==
  ev.kind # "none" => ev.deferred_after = ev.deferred

\* C19: a call changes the instance only under Sum and only when its
\* operand attribute is a deferred expression, which it replaces by the
\* value read back from the database; under every other aggregate and for a
\* concrete operand the instance is as it was, and a call that ends in an
\* error leaves every stored field at its value.
C19_InstanceChangedOnlyBySumRefresh ==
  ev.kind # "none"
  => /\ ev.deferred_after = (ev.deferred /\ kind # "Sum")
     /\ ev.out.status = "error" => field = ev.pre

\* C19 witness: a Sum update of an instance with a deferred operand left
\* the operand attribute concrete
C19_Witness ==
  /\ kind = "Sum" /\ IsUpdate /\ ev.deferred /\ ~ev.deferred_after
  /\ ev.instance.suitable /\ ~ev.old_instance.suitable /\ SameParent
  /\ ev.instance.parent # NoParent /\ ev.instance.operand # 0
  /\ ev.out = Returned(<<Entry(ev.instance.parent, ev.instance.operand)>>)
====
